---- MODULE Spec2Model ----
(***************************************************************************)
(* A model of the multilingual chatbot backend:                            *)
(*   app/translation.py  the lazily filled translation-pipeline cache      *)
(*   app/llm_agent.py    the completion collaborator                       *)
(*   app/main.py         the /ws/chat message loop and POST /translate     *)
(*                                                                         *)
(* Every handler is an `async def` whose body makes its translation and    *)
(* completion calls synchronously: a handler gives the event loop back     *)
(* only at `await websocket.receive_text()` and `await                     *)
(* websocket.send_text()`.  A task is modelled by its position pc[t]; the  *)
(* steps between two awaits are separate actions (so that "inside a call"  *)
(* is a state), and a handler can only be resumed when no other task is    *)
(* between two awaits (EventLoopFree).                                     *)
(***************************************************************************)
EXTENDS Naturals, Sequences, FiniteSets, TLC

(***************************************************************************)
(* Bounds of the model                                                     *)
(***************************************************************************)
\* inbound frames and unary requests all clients together may send
MaxInputs == 2

(***************************************************************************)
(* Tasks: the websocket connections and the unary requests                 *)
(***************************************************************************)
Conns == {"c1", "c2"}
Reqs == {"r1"}
Tasks == Conns \cup Reqs

\* language codes a caller may name; "fr" has no configured model
Langs == {"en", "hi", "fr"}
\* a field missing from the inbound JSON object / a missing query parameter
Absent == "<absent>"
SourceChoices == Langs \cup {Absent}
BotChoices == Langs \cup {"source", Absent}
\* texts are sequences of tokens: the words typed, then one token per
\* transformation applied (the translating model's id, the completion)
Texts == {<<"Hello">>}
NoText == <<>>

(***************************************************************************)
(* translation.py                                                          *)
(***************************************************************************)
\* LANGUAGE_MODELS
LANGUAGE_MODELS ==
    [k \in {"en->hi", "hi->en", "en->ja", "ja->en"} |->
        CASE k = "en->hi" -> "Helsinki-NLP/opus-mt-en-hi"
          [] k = "hi->en" -> "Helsinki-NLP/opus-mt-hi-en"
          [] k = "en->ja" -> "Helsinki-NLP/opus-mt-en-jap"
          [] k = "ja->en" -> "Helsinki-NLP/opus-mt-ja-en"]

\* the key with its two codes exchanged
PairKeySwapped(src, tgt) == tgt \o "->" \o src

\* key = f"{src}->{tgt}"
PairKey(src, tgt) == src \o "->" \o tgt

\* LANGUAGE_MODELS.get(key, <a default model>)
ModelIdOfDefault(key) ==
    IF key \in DOMAIN LANGUAGE_MODELS THEN LANGUAGE_MODELS[key] ELSE LANGUAGE_MODELS["en->hi"]

\* LANGUAGE_MODELS.get(key): None is modelled by ""
ModelIdOf(key) == IF key \in DOMAIN LANGUAGE_MODELS THEN LANGUAGE_MODELS[key] ELSE ""

\* a pipeline object: its identity and the model it is bound to
NoPipe == [id |-> 0, model |-> ""]
NewPipe(id, model_id) == [id |-> id, model |-> model_id]

\* out = pipe(text); out[0]["translation_text"]
PipeOutput(pipe, text) == Append(text, pipe.model)

\* ValueError(f"No translation model configured for {key}")
NoError == [type |-> "", msg |-> ""]
NoModelError(key) ==
    [type |-> "ValueError", msg |-> "No translation model configured for " \o key]
\* a failure inside pipeline(...) or pipe(text)
ModelLoadError == [type |-> "OSError", msg |-> "model load failed"]
ModelRunError == [type |-> "RuntimeError", msg |-> "translation failed"]

(***************************************************************************)
(* llm_agent.py                                                            *)
(***************************************************************************)
\* RuntimeError("OpenAI API key is not set.")
NoKeyError == [type |-> "RuntimeError", msg |-> "OpenAI API key is not set."]
UpstreamError == [type |-> "APIError", msg |-> "completion failed"]

\* chain.run({...}).strip()
Completion(user_text) == Append(user_text, "completion")

(***************************************************************************)
(* main.py: the pure parts of websocket_chat                               *)
(***************************************************************************)
\* payload.get(name, default)
PayloadGet(payload, name, default) ==
    IF payload[name] = Absent THEN default ELSE payload[name]

\* the test of line 28 inverted
NeedsSourceTranslationInverted(src) == src = "en"

\* line 28: if src != 'en'
NeedsSourceTranslation(src) == src # "en"

\* line 34 without the 'source' case
OutLangLiteral(src, tgt) == tgt

\* line 34: out_lang = src if tgt == 'source' else tgt
OutLang(src, tgt) == IF tgt = "source" THEN src ELSE tgt

\* line 35 translating always
NeedsOutputTranslationAlways(out_lang) == TRUE

\* line 35: if out_lang != 'en'
NeedsOutputTranslation(out_lang) == out_lang # "en"

\* line 40 with the two replies exchanged
RespObjSwapped(bot_out, bot_en, src) ==
    [reply |-> bot_en, reply_en |-> bot_out, detected_source |-> src]

\* line 40: resp_obj
RespObj(bot_out, bot_en, src) ==
    [reply |-> bot_out, reply_en |-> bot_en, detected_source |-> src]

(***************************************************************************)
(* State                                                                   *)
(***************************************************************************)
VARIABLES
    pipelines,  \* _translation_pipelines: key -> pipeline object
    nextId,     \* the identity the next constructed pipeline object gets
    apiKey,     \* whether OPENAI_API_KEY is set in the environment
    pc,         \* per task: its position
    fr,         \* per task: the handler's local variables
    inbox,      \* per connection: how many frames the client sent are not yet received
    gone,       \* per connection: the client has disconnected
    outbox,     \* per connection: the frames send_text has sent
    resp,       \* per request: the HTTP response
    err,        \* per task: the exception that left the handler
    calls,      \* per task: the calls made for the message in hand
    nrecv,      \* per connection: inbound frames received so far
    nsent,      \* number of inbound frames and unary requests the clients have sent
    emitted,    \* per connection: for each outbound frame, the inbound frame's number
    built,      \* per key: how often a pipeline was constructed and stored
    returned    \* per key: the pipeline objects _get_pipeline has returned

vars == <<pipelines, nextId, apiKey, pc, fr, inbox, gone, outbox, resp, err,
          calls, nrecv, nsent, emitted, built, returned>>

\* the keys a task of this model can form
Keys == {PairKey(s, t) : s \in Langs, t \in Langs} \cup DOMAIN LANGUAGE_MODELS

\* a handler that failed keeps the event loop: the failure stops the server
ParkedUnlessFailed == {"receive", "new", "closed", "done"}

\* positions at which a task is suspended or over: the event loop is not its
Parked == {"receive", "new", "closed", "failed", "done"}
\* positions inside a translation or completion call
InTranslation == {"get_pipeline", "construct", "invoke"}
InCall == InTranslation \cup {"generate"}

NoPayload == [text |-> NoText, source_language |-> Absent, bot_language |-> Absent]

NoLocals ==
    [n |-> 0, payload |-> NoPayload, text |-> NoText, src |-> "", tgt |-> "", user_en |-> NoText,
     bot_en |-> NoText, out_lang |-> "", bot_out |-> NoText,
     site |-> "", ttext |-> NoText, key |-> "", pipe |-> NoPipe]

Init ==
    /\ pipelines = <<>>
    /\ nextId = 1
    /\ apiKey \in BOOLEAN
    /\ pc = [t \in Tasks |-> IF t \in Conns THEN "receive" ELSE "new"]
    /\ fr = [t \in Tasks |-> NoLocals]
    /\ inbox = [c \in Conns |-> 0]
    /\ gone = [c \in Conns |-> FALSE]
    /\ outbox = [c \in Conns |-> <<>>]
    /\ resp = [r \in Reqs |-> [status |-> 0, translated |-> NoText, detail |-> ""]]
    /\ err = [t \in Tasks |-> NoError]
    /\ calls = [t \in Tasks |-> <<>>]
    /\ nrecv = [c \in Conns |-> 0]
    /\ nsent = 0
    /\ emitted = [c \in Conns |-> <<>>]
    /\ built = [k \in Keys |-> 0]
    /\ returned = [k \in Keys |-> {}]

\* handlers that run beside each other, as threads would
EventLoopAlwaysFree == TRUE

\* the event loop runs one handler at a time: a suspended handler is resumed
\* only when no other handler is between two awaits
EventLoopFree == \A u \in Tasks : pc[u] \in Parked

(***************************************************************************)
(* How a handler is left                                                   *)
(***************************************************************************)
\* the task moves on to position p
Goto(t, p) ==
    /\ pc' = [pc EXCEPT ![t] = p]
    /\ UNCHANGED <<err, resp>>

\* an exception handled by `except Exception: continue` in the message loop
RaiseAndContinue(t, e) ==
    /\ pc' = [pc EXCEPT ![t] = IF t \in Conns THEN "receive" ELSE "done"]
    /\ err' = [err EXCEPT ![t] = e]
    /\ UNCHANGED resp

\* an exception no handler catches: translate_api without its try/except
RaiseUncaught(t, e) ==
    /\ pc' = [pc EXCEPT ![t] = "failed"]
    /\ err' = [err EXCEPT ![t] = e]
    /\ UNCHANGED resp

\* an exception e is raised in task t.  websocket_chat catches only
\* WebSocketDisconnect, so e leaves the handler and the message loop is over;
\* translate_api catches it and answers HTTPException(500, detail=str(e))
Raise(t, e) ==
    IF t \in Conns
    THEN /\ pc' = [pc EXCEPT ![t] = "failed"]
         /\ err' = [err EXCEPT ![t] = e]
         /\ UNCHANGED resp
    ELSE /\ pc' = [pc EXCEPT ![t] = "done"]
         /\ resp' = [resp EXCEPT ![t] = [status |-> 500, translated |-> NoText,
                                          detail |-> e.msg]]
         /\ UNCHANGED err

\* translate_text(text, src, tgt) is entered: key = f"{src}->{tgt}"
EnterTranslate(locals, site, text, src, tgt) ==
    [locals EXCEPT !.site = site, !.ttext = text, !.key = PairKey(src, tgt)]

TranslateCall(key) == [op |-> "translate", key |-> key]
GenerateCall == [op |-> "generate", key |-> ""]

(***************************************************************************)
(* The clients                                                             *)
(***************************************************************************)
\* a client sends one JSON object on its connection.  Nothing reads a frame
\* before receive_text returns it, so its content is drawn there
ClientSend(c) ==
    /\ ~gone[c]
    /\ nsent < MaxInputs
    /\ inbox' = [inbox EXCEPT ![c] = @ + 1]
    /\ nsent' = nsent + 1
    /\ UNCHANGED <<pipelines, nextId, apiKey, pc, fr, gone, outbox, resp, err,
                   calls, nrecv, emitted, built, returned>>

\* a client closes its connection
ClientDisconnect(c) ==
    /\ ~gone[c]
    /\ gone' = [gone EXCEPT ![c] = TRUE]
    /\ UNCHANGED <<pipelines, nextId, apiKey, pc, fr, inbox, outbox, resp, err,
                   calls, nrecv, nsent, emitted, built, returned>>

(***************************************************************************)
(* websocket_chat                                                          *)
(***************************************************************************)
\* lines 22-31: receive_text returns the oldest frame; the payload is read,
\* and either translate_text(text, src, 'en') is entered or user_en = text
Receive(c, payload) ==
    /\ pc[c] = "receive"
    /\ EventLoopFree
    /\ inbox[c] > 0
    /\ LET text == payload.text
           src == PayloadGet(payload, "source_language", "en")
           tgt == PayloadGet(payload, "bot_language", "en")
           locals == [NoLocals EXCEPT !.n = nrecv[c] + 1, !.payload = payload,
                                      !.text = text,
                                      !.src = src, !.tgt = tgt]
       IN  IF NeedsSourceTranslation(src)
           THEN /\ fr' = [fr EXCEPT ![c] = EnterTranslate(locals, "in", text, src, "en")]
                /\ calls' = [calls EXCEPT ![c] = <<TranslateCall(PairKey(src, "en"))>>]
                /\ Goto(c, "get_pipeline")
           ELSE /\ fr' = [fr EXCEPT ![c] = [locals EXCEPT !.user_en = text]]
                /\ calls' = [calls EXCEPT ![c] = <<>>]
                /\ Goto(c, "generate")
    /\ inbox' = [inbox EXCEPT ![c] = @ - 1]
    /\ nrecv' = [nrecv EXCEPT ![c] = @ + 1]
    /\ UNCHANGED <<pipelines, nextId, apiKey, gone, outbox, nsent, emitted,
                   built, returned>>

\* the message loop without its except clause
ReceiveDisconnectUncaught(c) ==
    /\ pc[c] = "receive"
    /\ EventLoopFree
    /\ inbox[c] = 0
    /\ gone[c]
    /\ pc' = [pc EXCEPT ![c] = "failed"]
    /\ err' = [err EXCEPT ![c] = [type |-> "WebSocketDisconnect", msg |-> ""]]
    /\ UNCHANGED <<pipelines, nextId, apiKey, fr, inbox, gone, outbox, resp, calls,
                   nrecv, nsent, emitted, built, returned>>

\* lines 22, 42-43: receive_text raises WebSocketDisconnect, which is caught
ReceiveDisconnect(c) ==
    /\ pc[c] = "receive"
    /\ EventLoopFree
    /\ inbox[c] = 0
    /\ gone[c]
    /\ Goto(c, "closed")
    /\ UNCHANGED <<pipelines, nextId, apiKey, fr, inbox, gone, outbox, calls,
                   nrecv, nsent, emitted, built, returned>>

\* lines 33-38: generate_reply(user_en), then the output language, and either
\* translate_text(bot_en, 'en', out_lang) is entered or bot_out = bot_en.
\* get_llm raises without a key; the completion service may fail
Generate(c) ==
    /\ pc[c] = "generate"
    /\ IF ~apiKey
       THEN /\ Raise(c, NoKeyError)
            /\ calls' = [calls EXCEPT ![c] = Append(@, GenerateCall)]
            /\ UNCHANGED fr
       ELSE \E ok \in BOOLEAN :
              IF ~ok
              THEN /\ Raise(c, UpstreamError)
                   /\ calls' = [calls EXCEPT ![c] = Append(@, GenerateCall)]
                   /\ UNCHANGED fr
              ELSE LET bot_en == Completion(fr[c].user_en)
                       out_lang == OutLang(fr[c].src, fr[c].tgt)
                       locals == [fr[c] EXCEPT !.bot_en = bot_en, !.out_lang = out_lang]
                   IN  IF NeedsOutputTranslation(out_lang)
                       THEN /\ fr' = [fr EXCEPT ![c] =
                                        EnterTranslate(locals, "out", bot_en, "en", out_lang)]
                            /\ calls' = [calls EXCEPT ![c] =
                                           @ \o <<GenerateCall,
                                                  TranslateCall(PairKey("en", out_lang))>>]
                            /\ Goto(c, "get_pipeline")
                       ELSE /\ fr' = [fr EXCEPT ![c] = [locals EXCEPT !.bot_out = bot_en]]
                            /\ calls' = [calls EXCEPT ![c] = Append(@, GenerateCall)]
                            /\ Goto(c, "send")
    /\ UNCHANGED <<pipelines, nextId, apiKey, inbox, gone, outbox, nrecv, nsent,
                   emitted, built, returned>>

\* the loop going on without line 41
SendSkipped(c) ==
    /\ pc[c] = "send"
    /\ Goto(c, "receive")
    /\ UNCHANGED <<pipelines, nextId, apiKey, fr, inbox, gone, outbox, calls, nrecv,
                   nsent, emitted, built, returned>>

\* lines 40-41: resp_obj is sent.  To a client that has gone, send_text either
\* hands the frame to the closed transport or raises WebSocketDisconnect,
\* which line 42 catches
Send(c) ==
    /\ pc[c] = "send"
    /\ \E raised \in (IF gone[c] THEN BOOLEAN ELSE {FALSE}) :
         IF raised
         THEN /\ Goto(c, "closed")
              /\ UNCHANGED <<outbox, emitted>>
         ELSE /\ outbox' = [outbox EXCEPT ![c] =
                              Append(@, RespObj(fr[c].bot_out, fr[c].bot_en, fr[c].src))]
              /\ emitted' = [emitted EXCEPT ![c] = Append(@, fr[c].n)]
              /\ Goto(c, "receive")
    /\ UNCHANGED <<pipelines, nextId, apiKey, fr, inbox, gone, calls, nrecv,
                   nsent, built, returned>>

(***************************************************************************)
(* translate_text and _get_pipeline, as run by any task                    *)
(***************************************************************************)
\* a source language without a model taken as English: the text goes on
\* untranslated
GetPipelineFallback(t) ==
    /\ pc[t] = "get_pipeline"
    /\ LET key == fr[t].key
       IN  IF key \in DOMAIN pipelines
           THEN /\ fr' = [fr EXCEPT ![t].pipe = pipelines[key]]
                /\ returned' = [returned EXCEPT ![key] = @ \cup {pipelines[key]}]
                /\ Goto(t, "invoke")
           ELSE IF ModelIdOf(key) = "" /\ fr[t].site = "in"
           THEN /\ fr' = [fr EXCEPT ![t].user_en = fr[t].text]
                /\ Goto(t, "generate")
                /\ UNCHANGED returned
           ELSE IF ModelIdOf(key) = ""
           THEN /\ Raise(t, NoModelError(key))
                /\ UNCHANGED <<fr, returned>>
           ELSE /\ Goto(t, "construct")
                /\ UNCHANGED <<fr, returned>>
    /\ UNCHANGED <<pipelines, nextId, apiKey, inbox, gone, outbox, calls, nrecv,
                   nsent, emitted, built>>

\* _get_pipeline without the test of line 13
GetPipelineNoLookup(t) ==
    /\ pc[t] = "get_pipeline"
    /\ IF ModelIdOf(fr[t].key) = ""
       THEN Raise(t, NoModelError(fr[t].key))
       ELSE Goto(t, "construct")
    /\ UNCHANGED <<pipelines, nextId, apiKey, fr, inbox, gone, outbox, calls, nrecv,
                   nsent, emitted, built, returned>>

\* translation.py lines 13-17: the cached pipeline, or ValueError for a key
\* without a configured model, or on to the construction
GetPipeline(t) ==
    /\ pc[t] = "get_pipeline"
    /\ LET key == fr[t].key
       IN  IF key \in DOMAIN pipelines
           THEN /\ fr' = [fr EXCEPT ![t].pipe = pipelines[key]]
                /\ returned' = [returned EXCEPT ![key] = @ \cup {pipelines[key]}]
                /\ Goto(t, "invoke")
           ELSE IF ModelIdOf(key) = ""
           THEN /\ Raise(t, NoModelError(key))
                /\ UNCHANGED <<fr, returned>>
           ELSE /\ Goto(t, "construct")
                /\ UNCHANGED <<fr, returned>>
    /\ UNCHANGED <<pipelines, nextId, apiKey, inbox, gone, outbox, calls, nrecv,
                   nsent, emitted, built>>

\* _get_pipeline storing a placeholder under the key when the model fails to load
ConstructPlaceholder(t) ==
    /\ pc[t] = "construct"
    /\ \E ok \in BOOLEAN :
         IF ok
         THEN LET key == fr[t].key
                  pipe == NewPipe(nextId, ModelIdOf(key))
              IN  /\ pipelines' = (key :> pipe) @@ pipelines
                  /\ nextId' = nextId + 1
                  /\ built' = [built EXCEPT ![key] = @ + 1]
                  /\ returned' = [returned EXCEPT ![key] = @ \cup {pipe}]
                  /\ fr' = [fr EXCEPT ![t].pipe = pipe]
                  /\ Goto(t, "invoke")
         ELSE /\ Raise(t, ModelLoadError)
              /\ pipelines' = (fr[t].key :> NoPipe) @@ pipelines
              /\ UNCHANGED <<nextId, built, returned, fr>>
    /\ UNCHANGED <<apiKey, inbox, gone, outbox, calls, nrecv, nsent, emitted>>

\* translation.py lines 18-20: pipeline('translation', model=model_id) builds
\* a new object, which is stored under the key and returned; loading the
\* model may fail, and then nothing is stored
Construct(t) ==
    /\ pc[t] = "construct"
    /\ \E ok \in BOOLEAN :
         IF ok
         THEN LET key == fr[t].key
                  pipe == NewPipe(nextId, ModelIdOf(key))
              IN  /\ pipelines' = (key :> pipe) @@ pipelines
                  /\ nextId' = nextId + 1
                  /\ built' = [built EXCEPT ![key] = @ + 1]
                  /\ returned' = [returned EXCEPT ![key] = @ \cup {pipe}]
                  /\ fr' = [fr EXCEPT ![t].pipe = pipe]
                  /\ Goto(t, "invoke")
         ELSE /\ Raise(t, ModelLoadError)
              /\ UNCHANGED <<pipelines, nextId, built, returned, fr>>
    /\ UNCHANGED <<apiKey, inbox, gone, outbox, calls, nrecv, nsent, emitted>>

\* translation.py lines 25-26: out = pipe(text), and the return to the caller:
\* main.py line 29 (user_en), line 36 (bot_out) or lines 53-54 (the response)
Invoke(t) ==
    /\ pc[t] = "invoke"
    /\ \E ok \in BOOLEAN :
         IF ~ok
         THEN /\ Raise(t, ModelRunError)
              /\ UNCHANGED fr
         ELSE LET out == PipeOutput(fr[t].pipe, fr[t].ttext)
              IN  CASE fr[t].site = "in" ->
                         /\ fr' = [fr EXCEPT ![t].user_en = out]
                         /\ Goto(t, "generate")
                    [] fr[t].site = "out" ->
                         /\ fr' = [fr EXCEPT ![t].bot_out = out]
                         /\ Goto(t, "send")
                    [] fr[t].site = "unary" ->
                         /\ fr' = fr
                         /\ pc' = [pc EXCEPT ![t] = "done"]
                         /\ resp' = [resp EXCEPT ![t] =
                                       [status |-> 200, translated |-> out, detail |-> ""]]
                         /\ UNCHANGED err
    /\ UNCHANGED <<pipelines, nextId, apiKey, inbox, gone, outbox, calls, nrecv,
                   nsent, emitted, built, returned>>

(***************************************************************************)
(* translate_api                                                           *)
(***************************************************************************)
\* main.py lines 51-53: a request {text, source_language} with the query
\* parameter target (default 'en') enters translate_text(text, src, target)
TranslateApi(r, text, src, target) ==
    /\ pc[r] = "new"
    /\ EventLoopFree
    /\ nsent < MaxInputs
    /\ nsent' = nsent + 1
    /\ LET tgt == IF target = Absent THEN "en" ELSE target
           locals == [NoLocals EXCEPT !.text = text, !.src = src, !.tgt = tgt]
       IN  /\ fr' = [fr EXCEPT ![r] = EnterTranslate(locals, "unary", text, src, tgt)]
           /\ calls' = [calls EXCEPT ![r] = <<TranslateCall(PairKey(src, tgt))>>]
    /\ Goto(r, "get_pipeline")
    /\ UNCHANGED <<pipelines, nextId, apiKey, inbox, gone, outbox, nrecv,
                   emitted, built, returned>>

Targets == {"en", "hi", Absent}

Payloads ==
    [text : Texts, source_language : SourceChoices, bot_language : BotChoices]

Next ==
    \/ \E c \in Conns : ClientSend(c)
    \/ \E c \in Conns : ClientDisconnect(c)
    \/ \E c \in Conns, payload \in Payloads : Receive(c, payload)
    \/ \E c \in Conns : ReceiveDisconnect(c)
    \/ \E c \in Conns : Generate(c)
    \/ \E c \in Conns : Send(c)
    \/ \E t \in Tasks : GetPipeline(t)
    \/ \E t \in Tasks : Construct(t)
    \/ \E t \in Tasks : Invoke(t)
    \/ \E r \in Reqs, text \in Texts, src \in Langs, target \in Targets :
          TranslateApi(r, text, src, target)

Spec == Init /\ [][Next]_vars

(***************************************************************************)
(* What the properties below speak about                                   *)
(***************************************************************************)
\* the language pairs the configuration names
ConfiguredPairs == {"en->hi", "hi->en", "en->ja", "ja->en"}

\* the source language a message declares, and the output language it asks for
DeclaredSource(payload) ==
    IF payload.source_language = Absent THEN "en" ELSE payload.source_language
DeclaredOut(payload) ==
    CASE payload.bot_language = Absent -> "en"
      [] payload.bot_language = "source" -> DeclaredSource(payload)
      [] OTHER -> payload.bot_language

\* the calls a message is to make, in order
ExpectedCalls(source, out) ==
    (IF source # "en"
     THEN <<[op |-> "translate", key |-> source \o "->en"]>> ELSE <<>>)
    \o <<[op |-> "generate", key |-> ""]>>
    \o (IF out # "en"
        THEN <<[op |-> "translate", key |-> "en->" \o out]>> ELSE <<>>)

IsPrefix(s, t) == Len(s) <= Len(t) /\ SubSeq(t, 1, Len(s)) = s

CountOp(s, op) == Cardinality({i \in 1..Len(s) : s[i].op = op})

\* connection c has a message in hand
InHand(c) == fr[c].n > 0
\* the message c has in hand has been answered with a frame
Answered(c) ==
    /\ InHand(c)
    /\ emitted[c] # <<>>
    /\ emitted[c][Len(emitted[c])] = fr[c].n
LastFrame(c) == outbox[c][Len(outbox[c])]

(***************************************************************************)
(* C1: for every message of the duplex channel the calls are made in the   *)
(* order: source->en translation (only when the source is not "en"), one   *)
(* completion call, en->out translation (only when the output language is  *)
(* not "en"); at every moment the calls made so far are a prefix of that   *)
(* sequence and an answered message has made all of it; the completion is  *)
(* called on the English text (the text itself, or its src->en             *)
(* translation).  For source "hi" and bot_language "en": hi->en, then the  *)
(* completion, nothing after it, and reply = reply_en.                     *)
(***************************************************************************)
C1_CallOrder ==
    \A c \in Conns :
      InHand(c) =>
        LET source == DeclaredSource(fr[c].payload)
            out == DeclaredOut(fr[c].payload)
        IN  /\ IsPrefix(calls[c], ExpectedCalls(source, out))
            /\ Answered(c) => calls[c] = ExpectedCalls(source, out)
            /\ fr[c].bot_en # NoText =>
                 fr[c].bot_en =
                   Append(IF source = "en"
                          THEN fr[c].payload.text
                          ELSE Append(fr[c].payload.text, LANGUAGE_MODELS[source \o "->en"]),
                          "completion")
            /\ (Answered(c) /\ source = "hi" /\ fr[c].payload.bot_language = "en") =>
                 /\ calls[c] = <<[op |-> "translate", key |-> "hi->en"],
                                 [op |-> "generate", key |-> ""]>>
                 /\ LastFrame(c).reply = LastFrame(c).reply_en

\* a "hi" message answered in English
C1_Witness ==
    \E c \in Conns :
      /\ Answered(c)
      /\ fr[c].payload.source_language = "hi"
      /\ fr[c].payload.bot_language = "en"
      /\ Len(calls[c]) = 2

(***************************************************************************)
(* C2: an answered message has made (1 if source # "en") + (1 if out #     *)
(* "en") translation calls and exactly one completion call; a message      *)
(* from "en" to "en" has made no translation call at all.                  *)
(***************************************************************************)
C2_CallCounts ==
    \A c \in Conns :
      LET source == DeclaredSource(fr[c].payload)
          out == DeclaredOut(fr[c].payload)
      IN  /\ Answered(c) =>
               /\ CountOp(calls[c], "translate") =
                    (IF source # "en" THEN 1 ELSE 0) + (IF out # "en" THEN 1 ELSE 0)
               /\ CountOp(calls[c], "generate") = 1
          /\ (InHand(c) /\ source = "en" /\ out = "en") =>
               /\ CountOp(calls[c], "translate") = 0
               /\ CountOp(calls[c], "generate") <= 1

\* answered messages with no, and with two, translation calls
C2_Witness ==
    \E c, d \in Conns :
      /\ Answered(c) /\ Answered(d)
      /\ CountOp(calls[c], "translate") = 0
      /\ CountOp(calls[d], "translate") = 2

(***************************************************************************)
(* C3: the output language is the source language when bot_language is     *)
(* "source", else bot_language, and "en" when bot_language is missing;     *)
(* when it is "en" the reply is the completion unchanged.                  *)
(***************************************************************************)
C3_OutputLanguage ==
    \A c \in Conns :
      LET out == DeclaredOut(fr[c].payload)
      IN  /\ pc[c] \in {"send", "receive", "closed"} /\ InHand(c) =>
               fr[c].out_lang = out
          /\ fr[c].out_lang # "" => fr[c].out_lang = out
          /\ (pc[c] = "send" /\ out = "en") => fr[c].bot_out = fr[c].bot_en
          /\ (Answered(c) /\ out = "en") =>
               /\ LastFrame(c).reply = LastFrame(c).reply_en
               /\ LastFrame(c).reply_en = fr[c].bot_en

\* process(text, "en", "source") answered, and a message without bot_language answered
C3_Witness ==
    \E c, d \in Conns :
      /\ Answered(c)
      /\ DeclaredSource(fr[c].payload) = "en"
      /\ fr[c].payload.bot_language = "source"
      /\ Answered(d)
      /\ fr[d].payload.bot_language = Absent

(***************************************************************************)
(* C4: once a pipeline is stored under a key it stays there, the same      *)
(* object, for ever; and every pipeline _get_pipeline has returned for a   *)
(* key is the one the cache holds for it.                                  *)
(***************************************************************************)
C4_HandleStable ==
    /\ [][\A k \in DOMAIN pipelines :
            k \in DOMAIN pipelines' /\ pipelines'[k] = pipelines[k]]_vars
    /\ [](\A k \in Keys :
            returned[k] # {} => k \in DOMAIN pipelines /\ returned[k] = {pipelines[k]})

\* a key resolved a second time, by another task, from the cache
C4_Witness ==
    \E t, u \in Tasks :
      /\ t # u
      /\ fr[t].key = fr[u].key
      /\ fr[t].key \in DOMAIN pipelines
      /\ built[fr[t].key] = 1
      /\ pc[t] \in {"invoke", "done", "send", "generate", "receive"}
      /\ pc[u] = "invoke"
      /\ fr[t].pipe = pipelines[fr[t].key]
      /\ fr[u].pipe = pipelines[fr[t].key]

(***************************************************************************)
(* C5: _get_pipeline called with a key that has no configured model        *)
(* raises the error that names the key, on every such call, and neither    *)
(* constructs nor stores a pipeline.                                       *)
(***************************************************************************)
C5_UnconfiguredFails ==
    [][\A t \in Tasks :
         (pc[t] = "get_pipeline" /\ fr[t].key \notin ConfiguredPairs /\ pc'[t] # pc[t]) =>
           /\ pipelines' = pipelines
           /\ nextId' = nextId
           /\ built' = built
           /\ returned' = returned
           /\ IF t \in Conns
              THEN /\ pc'[t] = "failed"
                   /\ err'[t].type = "ValueError"
                   /\ err'[t].msg = "No translation model configured for " \o fr[t].key
              ELSE /\ pc'[t] = "done"
                   /\ resp'[t].status = 500
                   /\ resp'[t].detail = "No translation model configured for " \o fr[t].key]_vars

\* the same unconfigured key has failed twice
C5_Witness ==
    \E t, u \in Conns :
      /\ t # u
      /\ pc[t] = "failed" /\ pc[u] = "failed"
      /\ fr[t].key = "fr->en" /\ fr[u].key = "fr->en"
      /\ err[t].type = "ValueError" /\ err[u].type = "ValueError"
      /\ pipelines = <<>>

(***************************************************************************)
(* C6: a message that needs an unsupported pair is never answered; when    *)
(* its source pair is the unsupported one (source "fr") its processing     *)
(* ends with the error that names that pair ("fr->en").                    *)
(***************************************************************************)
C6_UnsupportedMessage ==
    \A c \in Conns :
      InHand(c) =>
        LET source == DeclaredSource(fr[c].payload)
            out == DeclaredOut(fr[c].payload)
            inPair == source \o "->en"
            outPair == "en->" \o out
            inBad == source # "en" /\ inPair \notin ConfiguredPairs
            outBad == out # "en" /\ outPair \notin ConfiguredPairs
        IN  /\ (inBad \/ outBad) => ~Answered(c) /\ pc[c] # "send"
            /\ inBad =>
                 /\ pc[c] \in {"get_pipeline", "failed"}
                 /\ pc[c] = "failed" =>
                      /\ err[c].type = "ValueError"
                      /\ err[c].msg = "No translation model configured for " \o inPair
            /\ (outBad /\ pc[c] = "failed" /\ err[c].type = "ValueError") =>
                 err[c].msg \in {"No translation model configured for " \o inPair,
                                 "No translation model configured for " \o outPair}

\* source "fr", bot_language "en": failed naming fr->en, nothing sent
C6_Witness ==
    \E c \in Conns :
      /\ pc[c] = "failed"
      /\ fr[c].payload.source_language = "fr"
      /\ fr[c].payload.bot_language = "en"
      /\ err[c].msg = "No translation model configured for fr->en"
      /\ outbox[c] = <<>>

(***************************************************************************)
(* C7: whatever the interleaving of the connections and requests, a        *)
(* pipeline is constructed and stored at most once per key: exactly once   *)
(* for every key that was ever resolved, never for another.                *)
(***************************************************************************)
C7_BuiltOncePerKey ==
    \A k \in Keys :
      /\ built[k] <= 1
      /\ built[k] = 1 <=> k \in DOMAIN pipelines
      /\ returned[k] # {} => built[k] = 1
      /\ Cardinality(returned[k]) <= 1
      /\ nextId = 1 + Cardinality(DOMAIN pipelines)

\* two connections whose frames were pending together used the same key
C7_Witness ==
    \E k \in Keys :
      /\ built[k] = 1
      /\ \A c \in Conns :
           /\ InHand(c)
           /\ fr[c].key = k
           /\ fr[c].pipe = pipelines[k]

(***************************************************************************)
(* C8: a translation or completion call made for one connection does not   *)
(* block the other connections: while a connection is inside such a call,  *)
(* another one that waits in receive_text with a frame pending can be      *)
(* resumed.                                                                *)
(***************************************************************************)
C8_CallsDoNotBlock ==
    \A a, b \in Conns :
      (a # b /\ pc[a] \in InCall /\ pc[b] = "receive" /\ inbox[b] > 0) =>
        ENABLED (\E payload \in Payloads : Receive(b, payload))

(***************************************************************************)
(* C9: on one connection a message is processed to its end before the      *)
(* next is read: while message n is in hand the n-1 before it have been    *)
(* answered, one frame each, in their order; back in receive_text all n    *)
(* have been.                                                              *)
(***************************************************************************)
C9_Sequential ==
    \A c \in Conns :
      /\ emitted[c] = [i \in 1..Len(emitted[c]) |-> i]
      /\ Len(outbox[c]) = Len(emitted[c])
      /\ fr[c].n = nrecv[c]
      /\ pc[c] = "receive" => Len(emitted[c]) = nrecv[c]
      /\ pc[c] \in InCall \cup {"send", "failed"} => Len(emitted[c]) = nrecv[c] - 1
      /\ pc[c] = "closed" => Len(emitted[c]) \in {nrecv[c] - 1, nrecv[c]}

\* the second message of a connection is in hand, the first one answered
C9_Witness ==
    \E c \in Conns :
      /\ nrecv[c] = 2
      /\ emitted[c] = <<1>>
      /\ pc[c] = "send"

(***************************************************************************)
(* C10 as the specification words it: POST /translate applies step 4 of    *)
(* the message pipeline to the request text with out_lang = target (the    *)
(* en->target pipeline when target is not "en", else the text unchanged)   *)
(* and makes no completion call.                                           *)
(***************************************************************************)
C10_StepFourOnly ==
    \A r \in Reqs :
      pc[r] = "done" =>
        /\ CountOp(calls[r], "generate") = 0
        /\ IF fr[r].tgt = "en"
           THEN /\ resp[r].status = 200
                /\ resp[r].translated = fr[r].text
                /\ calls[r] = <<>>
           ELSE /\ calls[r] = <<[op |-> "translate", key |-> "en->" \o fr[r].tgt]>>
                /\ resp[r].status = 200 =>
                     resp[r].translated =
                       Append(fr[r].text, LANGUAGE_MODELS["en->" \o fr[r].tgt])

(***************************************************************************)
(* C10 as the code has it: POST /translate makes one translate_text call,  *)
(* for the pair source_language->target of the request, whatever the       *)
(* target (there is no pass-through for "en"), answers with that           *)
(* pipeline's output or with a 500 error, and makes no completion call.    *)
(***************************************************************************)
C10_SourceToTarget ==
    \A r \in Reqs :
      LET pair == fr[r].src \o "->" \o fr[r].tgt
      IN  /\ pc[r] # "new" => calls[r] = <<[op |-> "translate", key |-> pair]>>
          /\ pc[r] = "done" =>
               /\ resp[r].status \in {200, 500}
               /\ pair \notin ConfiguredPairs => resp[r].status = 500
               /\ resp[r].status = 200 =>
                    /\ resp[r].translated = Append(fr[r].text, LANGUAGE_MODELS[pair])
                    /\ resp[r].translated # fr[r].text

\* a request from "hi" to "en", answered by the hi->en pipeline
C10_Witness ==
    \E r \in Reqs :
      /\ pc[r] = "done"
      /\ fr[r].src = "hi"
      /\ fr[r].tgt = "en"
      /\ resp[r].status = 200
      /\ resp[r].translated = <<"Hello", "Helsinki-NLP/opus-mt-hi-en">>

(***************************************************************************)
(* C11: every failure while POST /translate is served (a pair without a    *)
(* model, the model failing to load or to run) becomes one 500 response    *)
(* whose detail is the failure's message; a request is answered once,      *)
(* either with a translation or with an error, and no exception leaves     *)
(* translate_api unconverted.                                              *)
(***************************************************************************)
C11_FailureBecomes500 ==
    /\ [](\A r \in Reqs :
            /\ err[r] = NoError
            /\ pc[r] # "failed"
            /\ resp[r].status \in {0, 200, 500}
            /\ pc[r] = "done" <=> resp[r].status # 0
            /\ resp[r].status = 500 => resp[r].translated = NoText /\ resp[r].detail # ""
            /\ resp[r].status = 200 => resp[r].translated # NoText /\ resp[r].detail = "")
    /\ [][\A r \in Reqs :
            /\ resp[r].status # 0 => resp'[r] = resp[r]
            /\ (pc[r] \in InTranslation /\ pc'[r] \notin InTranslation) =>
                 /\ pc'[r] = "done"
                 /\ \/ resp'[r].status = 200 /\ pc[r] = "invoke"
                    \/ /\ resp'[r].status = 500
                       /\ resp'[r].detail =
                            CASE pc[r] = "get_pipeline" ->
                                   "No translation model configured for " \o fr[r].key
                              [] pc[r] = "construct" -> ModelLoadError.msg
                              [] pc[r] = "invoke" -> ModelRunError.msg]_vars

\* a request whose translation model failed, answered with the 500 error
C11_Witness ==
    \E r \in Reqs :
      /\ pc[r] = "done"
      /\ fr[r].key \in ConfiguredPairs
      /\ fr[r].pipe # NoPipe
      /\ resp[r].status = 500
      /\ resp[r].detail = ModelRunError.msg

\* connection c has failed with a configuration error: a pair without a
\* model, or the missing credential
ConfigFailed(c) ==
    /\ pc[c] = "failed"
    /\ err[c].type = "ValueError" \/ err[c] = NoKeyError
\* the pairs the message c has in hand needs are all configured
PairsConfigured(c) ==
    LET source == DeclaredSource(fr[c].payload)
        out == DeclaredOut(fr[c].payload)
    IN  /\ source = "en" \/ (source \o "->en") \in ConfiguredPairs
        /\ out = "en" \/ ("en->" \o out) \in ConfiguredPairs

(***************************************************************************)
(* C12 as the specification words it: after a configuration error on one   *)
(* connection, the requests for configured pairs on the other connections  *)
(* are processed successfully: of two connections whose messages need      *)
(* configured pairs only, the later does not end in a configuration error  *)
(* when the earlier has.                                                   *)
(***************************************************************************)
C12_OthersSucceed ==
    \A c, u \in Conns :
      (c # u /\ InHand(c) /\ InHand(u) /\ PairsConfigured(c) /\ PairsConfigured(u)) =>
        ~(ConfigFailed(c) /\ ConfigFailed(u))

(***************************************************************************)
(* C12 as the code has it: a configuration error ends only the request     *)
(* that raised it.  The failing step leaves the cache and every other      *)
(* connection and request as they were; a failed handler does not keep     *)
(* the event loop, so a waiting connection and a new unary request can     *)
(* be served.  Without the credential no duplex message is ever answered,  *)
(* on any connection: each that reaches the completion call fails with     *)
(* the missing-credential error of its own.                                *)
(***************************************************************************)
C12_FailureIsLocal ==
    /\ [][\A t \in Tasks :
            (/\ pc[t] \in InCall
             /\ \/ t \in Conns /\ pc'[t] = "failed"
                     /\ (err'[t].type = "ValueError" \/ err'[t] = NoKeyError)
                \/ t \in Reqs /\ pc[t] = "get_pipeline" /\ resp'[t].status = 500) =>
              /\ pipelines' = pipelines
              /\ built' = built
              /\ inbox' = inbox /\ outbox' = outbox /\ gone' = gone
              /\ \A u \in Tasks \ {t} :
                   pc'[u] = pc[u] /\ fr'[u] = fr[u] /\ calls'[u] = calls[u]]_vars
    /\ [](\A u \in Conns :
            (/\ pc[u] = "receive" /\ inbox[u] > 0
             /\ \A v \in Tasks : pc[v] \notin InCall \cup {"send"}) =>
              ENABLED (\E payload \in Payloads : Receive(u, payload)))
    /\ [](\A r \in Reqs :
            (/\ pc[r] = "new" /\ nsent < MaxInputs
             /\ \A v \in Tasks : pc[v] \notin InCall \cup {"send"}) =>
              ENABLED (\E text \in Texts, src \in Langs, target \in Targets :
                         TranslateApi(r, text, src, target)))
    /\ [](~apiKey => \A c \in Conns :
            /\ outbox[c] = <<>>
            /\ pc[c] \in {"send", "closed"} => ~InHand(c)
            /\ (pc[c] = "failed" /\ CountOp(calls[c], "generate") = 1) =>
                 err[c] = NoKeyError)

\* a connection has failed on a pair without a model while the cache held a
\* pipeline; another connection, served after that, got that pipeline from
\* the cache and its frame is about to be sent
C12_Witness ==
    \E c, u \in Conns :
      /\ c # u
      /\ pc[c] = "failed"
      /\ err[c].type = "ValueError"
      /\ fr[c].pipe # NoPipe
      /\ pc[u] = "send"
      /\ fr[u].pipe = fr[c].pipe
      /\ built[fr[u].key] = 1

(***************************************************************************)
(* C13: a disconnection is not an error.  The message loop of a client     *)
(* that has gone ends at receive_text (or at send_text) without a frame    *)
(* and without an exception leaving the handler; that step, and the        *)
(* client's going itself, change neither the cache nor any other task; a   *)
(* closed loop stays closed and does not keep the event loop.              *)
(***************************************************************************)
C13_DisconnectIsSilent ==
    /\ [][\A c \in Conns :
            /\ (gone[c] /\ pc[c] = "receive" /\ inbox[c] = 0 /\ pc'[c] # pc[c]) =>
                 pc'[c] = "closed"
            /\ (pc'[c] = "closed" /\ pc[c] # "closed") =>
                 /\ gone[c]
                 /\ pc[c] \in {"receive", "send"}
                 /\ err' = err
                 /\ outbox' = outbox /\ emitted' = emitted
                 /\ pipelines' = pipelines /\ built' = built /\ returned' = returned
                 /\ inbox' = inbox
                 /\ \A u \in Tasks \ {c} :
                      pc'[u] = pc[u] /\ fr'[u] = fr[u] /\ calls'[u] = calls[u]
            /\ gone'[c] # gone[c] =>
                 /\ pc' = pc /\ fr' = fr /\ err' = err
                 /\ pipelines' = pipelines /\ outbox' = outbox /\ inbox' = inbox
            /\ pc[c] = "closed" =>
                 pc'[c] = "closed" /\ nrecv'[c] = nrecv[c] /\ outbox'[c] = outbox[c]]_vars
    /\ [](\A c \in Conns :
            /\ pc[c] = "closed" => gone[c] /\ err[c] = NoError
            /\ pc[c] = "closed" =>
                 \A u \in Conns :
                   (/\ pc[u] = "receive" /\ inbox[u] > 0
                    /\ \A v \in Tasks : pc[v] \notin InCall \cup {"send"}) =>
                     ENABLED (\E payload \in Payloads : Receive(u, payload)))

\* a client went while its message was in hand: the result was abandoned,
\* the loop is closed, and another connection is being served
C13_Witness ==
    \E c, u \in Conns :
      /\ pc[c] = "closed"
      /\ InHand(c)
      /\ ~Answered(c)
      /\ fr[c].bot_out # NoText
      /\ outbox[c] = <<>>
      /\ pc[u] \in InCall

(***************************************************************************)
(* C14: in the frame that answers a message, detected_source is the        *)
(* source language the message declared ("en" when it declared none),      *)
(* reply_en is the completion of the English text, and reply is step 4     *)
(* applied to reply_en: its en->out translation, or reply_en itself when   *)
(* the output language is "en".                                            *)
(***************************************************************************)
C14_FrameFields ==
    \A c \in Conns :
      Answered(c) =>
        LET payload == fr[c].payload
            source == DeclaredSource(payload)
            out == DeclaredOut(payload)
            english == IF source = "en"
                       THEN payload.text
                       ELSE Append(payload.text, LANGUAGE_MODELS[source \o "->en"])
            frame == LastFrame(c)
        IN  /\ DOMAIN frame = {"reply", "reply_en", "detected_source"}
            /\ frame.detected_source = source
            /\ frame.reply_en = Append(english, "completion")
            /\ frame.reply = IF out = "en"
                             THEN frame.reply_en
                             ELSE Append(frame.reply_en, LANGUAGE_MODELS["en->" \o out])

\* a "hi" message answered in its source language: both translations made
C14_Witness ==
    \E c \in Conns :
      /\ Answered(c)
      /\ fr[c].payload.source_language = "hi"
      /\ fr[c].payload.bot_language = "source"
      /\ LastFrame(c).detected_source = "hi"
      /\ LastFrame(c).reply # LastFrame(c).reply_en

(***************************************************************************)
(* C15: the cache starts empty; at every moment its keys are among the     *)
(* configured pairs, each bound to the model configured for it; and a      *)
(* _get_pipeline call that fails (no model for the key, or the model       *)
(* failing to load) leaves the cache exactly as it was.                    *)
(***************************************************************************)
C15_CacheWithinConfiguration ==
    /\ pipelines = <<>>
    /\ [](/\ DOMAIN pipelines \subseteq ConfiguredPairs
          /\ \A k \in DOMAIN pipelines : pipelines[k].model = LANGUAGE_MODELS[k])
    /\ [][\A t \in Tasks :
            (/\ pc[t] \in {"get_pipeline", "construct"}
             /\ pc'[t] \in {"failed", "done"}) =>
              /\ pipelines' = pipelines
              /\ built' = built
              /\ nextId' = nextId]_vars

\* a model failed to load while the cache held another pipeline
C15_Witness ==
    \E t \in Tasks :
      /\ pc[t] \in {"failed", "done"}
      /\ fr[t].key \in ConfiguredPairs
      /\ fr[t].key \notin DOMAIN pipelines
      /\ fr[t].pipe = NoPipe
      /\ pipelines # <<>>

(***************************************************************************)
(* C16: when a message fails in step 1 (the source->en translation) the    *)
(* completion is never called for it; when it fails in step 4 (the         *)
(* en->out translation, as for source "en" with a bot_language without a   *)
(* model) the completion call has been made, and its result is dropped     *)
(* without a frame.                                                        *)
(***************************************************************************)
C16_FailureSteps ==
    /\ [](\A c \in Conns :
            InHand(c) =>
              LET source == DeclaredSource(fr[c].payload)
                  out == DeclaredOut(fr[c].payload)
              IN  /\ (source # "en" /\ (source \o "->en") \notin ConfiguredPairs) =>
                       /\ CountOp(calls[c], "generate") = 0
                       /\ fr[c].bot_en = NoText
                  /\ (/\ source = "en" /\ out # "en"
                      /\ ("en->" \o out) \notin ConfiguredPairs
                      /\ pc[c] \in Parked) =>
                       /\ pc[c] = "failed"
                       /\ CountOp(calls[c], "generate") = 1
                       /\ ~Answered(c)
                       /\ err[c].type = "ValueError" => fr[c].bot_en # NoText)
    /\ [][\A c \in Conns :
            /\ (pc[c] \in InTranslation /\ fr[c].site = "in" /\ pc'[c] = "failed") =>
                 /\ CountOp(calls'[c], "generate") = 0
                 /\ fr'[c].bot_en = NoText
                 /\ outbox' = outbox
            /\ (pc[c] \in InTranslation /\ fr[c].site = "out" /\ pc'[c] = "failed") =>
                 /\ calls'[c] = ExpectedCalls(DeclaredSource(fr[c].payload),
                                              DeclaredOut(fr[c].payload))
                 /\ fr'[c].bot_en # NoText
                 /\ fr'[c].bot_out = NoText
                 /\ outbox' = outbox
            /\ pc[c] = "failed" =>
                 calls'[c] = calls[c] /\ outbox'[c] = outbox[c]]_vars

\* source "en", bot_language "fr": the completion was made, en->fr has no model
C16_Witness ==
    \E c \in Conns :
      /\ pc[c] = "failed"
      /\ DeclaredSource(fr[c].payload) = "en"
      /\ fr[c].payload.bot_language = "fr"
      /\ err[c].msg = "No translation model configured for en->fr"
      /\ fr[c].bot_en = <<"Hello", "completion">>
      /\ CountOp(calls[c], "generate") = 1
      /\ outbox[c] = <<>>

(***************************************************************************)
(* C17: a failure other than a disconnection while a duplex message is     *)
(* processed (a pair without a model, a translation failure, a completion  *)
(* failure, the missing credential) ends the message loop of that          *)
(* connection: the exception leaves the handler, no frame answers the      *)
(* failing message, no error frame is sent, and no later frame of the      *)
(* connection is read.                                                     *)
(***************************************************************************)
C17_FailureEndsLoop ==
    /\ [](\A c \in Conns :
            /\ err[c] # NoError <=> pc[c] = "failed"
            /\ pc[c] = "failed" =>
                 /\ InHand(c)
                 /\ ~Answered(c)
                 /\ Len(outbox[c]) = nrecv[c] - 1
                 /\ \/ err[c].type = "ValueError"
                    \/ err[c] \in {ModelLoadError, ModelRunError, NoKeyError, UpstreamError}
                 /\ ~ENABLED (\E payload \in Payloads : Receive(c, payload)))
    /\ [][\A c \in Conns :
            /\ (pc[c] \in InCall /\ pc'[c] \notin InCall \cup {"send"}) =>
                 /\ pc'[c] = "failed"
                 /\ err'[c] # NoError
                 /\ outbox' = outbox
            /\ pc[c] = "failed" =>
                 /\ pc'[c] = "failed"
                 /\ err'[c] = err[c]
                 /\ nrecv'[c] = nrecv[c]
                 /\ inbox'[c] >= inbox[c]
                 /\ outbox'[c] = outbox[c]
                 /\ fr'[c] = fr[c]]_vars

\* the completion failed for the first message while the second was waiting:
\* it is never read
C17_Witness ==
    \E c \in Conns :
      /\ pc[c] = "failed"
      /\ err[c] = UpstreamError
      /\ nrecv[c] = 1
      /\ inbox[c] = 1
      /\ outbox[c] = <<>>

====
